---- MODULE Spec2Model ----
(***************************************************************************)
(* Model of src/backend/routers/announcements.py: the announcements        *)
(* router (list, get, create, update, delete) over the announcement store  *)
(* and the teacher directory.                                              *)
(*                                                                         *)
(* Strings are sequences of one-character strings, so that trimming,       *)
(* date parsing, date formatting and the store's string comparison are     *)
(* computed character by character as the code and the store compute them. *)
(* An optional value is a sequence of length at most one: None is << >>,   *)
(* a present value v is << v >> (so None and the empty string differ).     *)
(***************************************************************************)
EXTENDS Integers, Sequences, FiniteSets, TLC

VARIABLES announcements_collection, next_oid, now, call, deleted, upd

vars == << announcements_collection, next_oid, now, call, deleted, upd >>

(***************************************************************************)
(* Bounds of the model.                                                    *)
(***************************************************************************)
\* the store hands out at most this many identifiers (successful creates)
MaxAnn == 2
\* the clock takes the values 0..MaxClock (half days since Epoch)
MaxClock == 1

(***************************************************************************)
(* Characters and strings.                                                 *)
(***************************************************************************)
\* the characters used, in code point order
Alphabet == << " ", "-", "0", "1", "2", "3", "4", "5", "6", "7", "8", "9",
               ":", "A", "B", "T", "a", "b", "c", "d", "e", "f", "x" >>

\* the position of each character in that order
OrdOf == [ c \in { Alphabet[i] : i \in 1..Len(Alphabet) } |->
             CHOOSE i \in 1..Len(Alphabet) : Alphabet[i] = c ]

Ord(c) == OrdOf[c]

Digits == << "0", "1", "2", "3", "4", "5", "6", "7", "8", "9" >>

DigitOf == [ c \in { Digits[i] : i \in 1..10 } |-> (CHOOSE i \in 1..10 : Digits[i] = c) - 1 ]

IsDigit(c) == c \in DOMAIN DigitOf

DigitVal(c) == DigitOf[c]

HexDigits == << "0", "1", "2", "3", "4", "5", "6", "7", "8", "9",
                "a", "b", "c", "d", "e", "f" >>

HexOf == [ c \in { HexDigits[i] : i \in 1..16 } |-> (CHOOSE i \in 1..16 : HexDigits[i] = c) - 1 ]

IsHex(c) == c \in DOMAIN HexOf

HexVal(c) == HexOf[c]

\* binary (code point) comparison of two strings, as the store compares them
RECURSIVE StrLeq(_, _)
StrLeq(s, t) ==
    IF s = << >> THEN TRUE
    ELSE IF t = << >> THEN FALSE
    ELSE IF Head(s) = Head(t) THEN StrLeq(Tail(s), Tail(t))
    ELSE Ord(Head(s)) < Ord(Head(t))

None == << >>

Some(v) == << v >>

(***************************************************************************)
(* Python's str.strip(), datetime.strptime(_, "%Y-%m-%d"), strftime and    *)
(* isoformat.                                                              *)
(***************************************************************************)
IsSpace(c) == c = " "

RECURSIVE lstrip(_)
lstrip(s) == IF s # << >> /\ IsSpace(Head(s)) THEN lstrip(Tail(s)) ELSE s

RECURSIVE rstrip(_)
rstrip(s) ==
    IF s # << >> /\ IsSpace(s[Len(s)]) THEN rstrip(SubSeq(s, 1, Len(s) - 1)) ELSE s

\* message.strip()
strip(s) == rstrip(lstrip(s))

IsLeap(y) == (y % 4 = 0 /\ y % 100 # 0) \/ y % 400 = 0

DaysInMonth(y, m) ==
    IF m = 2 THEN (IF IsLeap(y) THEN 29 ELSE 28)
    ELSE IF m \in {4, 6, 9, 11} THEN 30 ELSE 31

\* the directive %m: 1[0-2] | 0[1-9] | [1-9]
MonthToken(s) ==
    \/ Len(s) = 2 /\ s[1] = "1" /\ s[2] \in {"0", "1", "2"}
    \/ Len(s) = 2 /\ s[1] = "0" /\ IsDigit(s[2]) /\ s[2] # "0"
    \/ Len(s) = 1 /\ IsDigit(s[1]) /\ s[1] # "0"

\* the directive %d: 3[01] | [12]\d | 0[1-9] | [1-9] | " "[1-9]
DayToken(s) ==
    \/ Len(s) = 2 /\ s[1] = "3" /\ s[2] \in {"0", "1"}
    \/ Len(s) = 2 /\ s[1] \in {"1", "2"} /\ IsDigit(s[2])
    \/ Len(s) = 2 /\ s[1] \in {"0", " "} /\ IsDigit(s[2]) /\ s[2] # "0"
    \/ Len(s) = 1 /\ IsDigit(s[1]) /\ s[1] # "0"

RECURSIVE NumVal(_)
NumVal(s) ==
    IF s = << >> THEN 0
    ELSE IF IsDigit(s[Len(s)])
         THEN 10 * NumVal(SubSeq(s, 1, Len(s) - 1)) + DigitVal(s[Len(s)])
         ELSE NumVal(SubSeq(s, 1, Len(s) - 1))

\* the ways the pattern %Y-%m-%d matches the whole of s: the lengths of the
\* month and the day tokens
DateMatches(s) ==
    { p \in {1, 2} \X {1, 2} :
        /\ Len(s) = 6 + p[1] + p[2]
        /\ \A i \in 1..4 : IsDigit(s[i])
        /\ s[5] = "-"
        /\ MonthToken(SubSeq(s, 6, 5 + p[1]))
        /\ s[6 + p[1]] = "-"
        /\ DayToken(SubSeq(s, 7 + p[1], Len(s))) }

\* the date a match stands for
DateOf(s, p) ==
    [ year  |-> NumVal(SubSeq(s, 1, 4)),
      month |-> NumVal(SubSeq(s, 6, 5 + p[1])),
      day   |-> NumVal(SubSeq(s, 7 + p[1], Len(s))) ]

\* datetime.strptime(s, "%Y-%m-%d") returns (does not raise ValueError)
strptime_ok(s) ==
    \E p \in DateMatches(s) :
        LET d == DateOf(s, p)
        IN  d.year >= 1 /\ d.day <= DaysInMonth(d.year, d.month)

\* the date strptime returns for a string it accepts
strptime(s) == DateOf(s, CHOOSE p \in DateMatches(s) : TRUE)

Pad2(n) == << Digits[((n \div 10) % 10) + 1], Digits[(n % 10) + 1] >>

Pad4(n) == Pad2(n \div 100) \o Pad2(n % 100)

\* d.strftime("%Y-%m-%d")
strftime(d) == Pad4(d.year) \o << "-" >> \o Pad2(d.month) \o << "-" >> \o Pad2(d.day)

\* d.isoformat() of a datetime whose microsecond is 0
isoformat(d) ==
    strftime(d) \o << "T" >> \o Pad2(d.hour) \o << ":" >> \o Pad2(d.minute)
                \o << ":" >> \o Pad2(d.second)

\* the local time of clock value 0
Epoch == [ year |-> 2025, month |-> 9, day |-> 30, hour |-> 12, minute |-> 0, second |-> 0 ]

RECURSIVE AddDays(_, _)
AddDays(d, n) ==
    IF n = 0 THEN d
    ELSE IF d.day < DaysInMonth(d.year, d.month)
         THEN AddDays([d EXCEPT !.day = d.day + 1], n - 1)
    ELSE IF d.month < 12
         THEN AddDays([d EXCEPT !.day = 1, !.month = d.month + 1], n - 1)
    ELSE AddDays([d EXCEPT !.day = 1, !.month = 1, !.year = d.year + 1], n - 1)

\* datetime.now() at clock value t: the clock counts half days
datetime_now(t) ==
    LET h == Epoch.hour + 12 * t
    IN  [ AddDays(Epoch, h \div 24) EXCEPT !.hour = h % 24 ]

\* calendar order of two dates
DateLeq(a, b) ==
    a.year * 10000 + a.month * 100 + a.day <= b.year * 10000 + b.month * 100 + b.day

(***************************************************************************)
(* bson.ObjectId: the store's native identifier (here its number) and its  *)
(* string form, ObjectIdLen lower-case hexadecimal characters.             *)
(***************************************************************************)
ObjectIdLen == 24

\* ObjectId(s) does not raise (the identifiers used here have no upper-case
\* hexadecimal characters)
ObjectId_ok(s) == Len(s) = ObjectIdLen /\ \A i \in 1..Len(s) : IsHex(s[i])

\* the number the first k hexadecimal characters of s write
RECURSIVE HexNum(_, _)
HexNum(s, k) == IF k = 0 THEN 0 ELSE 16 * HexNum(s, k - 1) + HexVal(s[k])

\* ObjectId(s) for a string it accepts
ObjectId(s) == HexNum(s, Len(s))

RECURSIVE HexStr(_, _)
HexStr(n, len) ==
    IF len = 0 THEN << >>
    ELSE HexStr(n \div 16, len - 1) \o << HexDigits[(n % 16) + 1] >>

\* str(oid)
str(oid) == HexStr(oid, ObjectIdLen)

(***************************************************************************)
(* Documents are dicts: functions from field names to values.  The two     *)
(* collections and the store calls the router makes.                       *)
(***************************************************************************)
\* dict d after d[k] = v for every k of u (and the store's $set)
SetFields(d, u) ==
    [ k \in DOMAIN d \cup DOMAIN u |-> IF k \in DOMAIN u THEN u[k] ELSE d[k] ]

\* dict d after del d[f]
DelField(d, f) == [ k \in DOMAIN d \ {f} |-> d[k] ]

\* the Teacher Directory; the router never writes it
teachers_collection == { "alice", "bob" }

\* collection.find_one({"_id": oid}): the document, or None
find_one(coll, oid) ==
    IF \E d \in coll : d._id = oid
    THEN Some(CHOOSE d \in coll : d._id = oid)
    ELSE None

\* collection.insert_one(doc): the store assigns the next identifier
insert_one(coll, doc, oid) ==
    [ inserted_id |-> oid,
      coll |-> coll \cup { SetFields(doc, [_id |-> oid]) } ]

\* collection.update_one({"_id": oid}, {"$set": fields})
update_one(coll, oid, fields) ==
    LET hit == { d \in coll : d._id = oid }
        new == { SetFields(d, fields) : d \in hit }
    IN  [ matched_count  |-> Cardinality(hit),
          modified_count |-> Cardinality(new \ hit),
          coll |-> (coll \ hit) \cup new ]

\* collection.delete_one({"_id": oid})
delete_one(coll, oid) ==
    LET hit == { d \in coll : d._id = oid }
    IN  [ deleted_count |-> Cardinality(hit), coll |-> coll \ hit ]

(***************************************************************************)
(* The router.  A handler's result is the response and the collection it   *)
(* leaves.  A returned value that may be None is an optional value.        *)
(***************************************************************************)
HTTPException(status_code, detail) == [ status_code |-> status_code, detail |-> detail ]

Returned(body) == [ status_code |-> 200, body |-> body ]

Unauthorized == HTTPException(401, "Authentication required")
InvalidId == HTTPException(400, "Invalid announcement ID")
NotFound == HTTPException(404, "Announcement not found")
InvalidDate == HTTPException(400, "Invalid date format. Use YYYY-MM-DD")
EmptyMessage == HTTPException(400, "Message cannot be empty")
UpdateFailed == HTTPException(500, "Failed to update announcement")

\* mutant: "_id" is left in the dict
serialize_announcement_keeps_oid(announcement) ==
    IF announcement # None /\ "_id" \in DOMAIN announcement[1]
    THEN Some(SetFields(announcement[1], [id |-> str(announcement[1]._id)]))
    ELSE announcement

\* serialize_announcement: "_id" replaced by "id", its string form
serialize_announcement(announcement) ==
    IF announcement # None /\ "_id" \in DOMAIN announcement[1]
    THEN Some(DelField(SetFields(announcement[1], [id |-> str(announcement[1]._id)]), "_id"))
    ELSE announcement

\* mutant: any username that was given passes
authenticated_any(teacher_username) == teacher_username # ""

\* the teacher lookup that stands for authentication
authenticated(teacher_username) == teacher_username \in teachers_collection

\* the "Validate dates" block does not raise ValueError
dates_ok(expiration_date, start_date) ==
    /\ strptime_ok(expiration_date)
    /\ (start_date # None /\ start_date[1] # << >>) => strptime_ok(start_date[1])

\* mutant: the message is not stripped before the test
message_empty_unstripped(message) == message = << >>

\* not message or not message.strip()
message_empty(message) == message = << >> \/ strip(message) = << >>

\* the query of get_announcements: the store's filter on one document
query_matches(d, active_only, current_date) ==
    active_only =>
        /\ StrLeq(current_date, d.expiration_date)
        /\ \/ "start_date" \notin DOMAIN d
           \/ d.start_date = None
           \/ StrLeq(d.start_date[1], current_date)

\* the orders find(query).sort("created_at", -1) may yield the documents in
\* (documents with equal created_at come in either order)
find_sorted(coll, active_only, current_date) ==
    LET hit == { d \in coll : query_matches(d, active_only, current_date) }
        n == Cardinality(hit)
    IN  { f \in [1..n -> hit] :
            /\ \A i, j \in 1..n : i # j => f[i] # f[j]
            /\ \A i, j \in 1..n : i < j => StrLeq(f[j].created_at, f[i].created_at) }

\* get_announcements: the lists it may return at clock value t
get_announcements(coll, t, active_only) ==
    LET current_date == strftime(datetime_now(t))
    IN  { [ i \in 1..Len(f) |-> serialize_announcement(Some(f[i]))[1] ] :
            f \in find_sorted(coll, active_only, current_date) }

get_announcement(coll, announcement_id) ==
    IF ~ObjectId_ok(announcement_id) THEN InvalidId
    ELSE LET announcement == find_one(coll, ObjectId(announcement_id))
         IN  IF announcement = None THEN NotFound
             ELSE Returned(serialize_announcement(announcement))

\* the document create_announcement builds
new_announcement(r, t) ==
    [ message |-> strip(r.message),
      start_date |-> r.start_date,
      expiration_date |-> r.expiration_date,
      created_by |-> r.teacher_username,
      created_at |-> isoformat(datetime_now(t)) ]

create_announcement(coll, oid, t, r) ==
    IF ~authenticated(r.teacher_username) THEN [ response |-> Unauthorized, coll |-> coll ]
    ELSE IF ~dates_ok(r.expiration_date, r.start_date)
         THEN [ response |-> InvalidDate, coll |-> coll ]
    ELSE IF message_empty(r.message) THEN [ response |-> EmptyMessage, coll |-> coll ]
    ELSE LET announcement == new_announcement(r, t)
             result == insert_one(coll, announcement, oid)
             \* insert_one adds "_id" to the dict it is given
             inserted == SetFields(announcement, [_id |-> result.inserted_id])
             returned == DelField(SetFields(inserted, [id |-> str(result.inserted_id)]), "_id")
         IN  [ response |-> Returned(Some(returned)), coll |-> result.coll ]

\* mutant: start_date is set only when one is given (a merge)
update_data_merge(r, t) ==
    LET given == [ message |-> strip(r.message),
                   expiration_date |-> r.expiration_date,
                   updated_by |-> r.teacher_username,
                   updated_at |-> isoformat(datetime_now(t)) ]
    IN  IF r.start_date = None THEN given
        ELSE SetFields(given, [start_date |-> r.start_date])

\* mutant: the update also stamps its teacher as the creator
update_data_sets_creator(r, t) ==
    [ message |-> strip(r.message),
      start_date |-> r.start_date,
      expiration_date |-> r.expiration_date,
      created_by |-> r.teacher_username,
      updated_by |-> r.teacher_username,
      updated_at |-> isoformat(datetime_now(t)) ]

\* the fields update_announcement sets
update_data(r, t) ==
    [ message |-> strip(r.message),
      start_date |-> r.start_date,
      expiration_date |-> r.expiration_date,
      updated_by |-> r.teacher_username,
      updated_at |-> isoformat(datetime_now(t)) ]

\* mutant: the fields are validated before the record is looked up
update_checks_fields_first(coll, r) ==
    IF ~authenticated(r.teacher_username) THEN Some(Unauthorized)
    ELSE IF ~dates_ok(r.expiration_date, r.start_date) THEN Some(InvalidDate)
    ELSE IF message_empty(r.message) THEN Some(EmptyMessage)
    ELSE IF ~ObjectId_ok(r.announcement_id) THEN Some(InvalidId)
    ELSE IF find_one(coll, ObjectId(r.announcement_id)) = None THEN Some(NotFound)
    ELSE None

\* update_announcement up to its write: the error it raises, or None
update_checks(coll, r) ==
    IF ~authenticated(r.teacher_username) THEN Some(Unauthorized)
    ELSE IF ~ObjectId_ok(r.announcement_id) THEN Some(InvalidId)
    ELSE IF find_one(coll, ObjectId(r.announcement_id)) = None THEN Some(NotFound)
    ELSE IF ~dates_ok(r.expiration_date, r.start_date) THEN Some(InvalidDate)
    ELSE IF message_empty(r.message) THEN Some(EmptyMessage)
    ELSE None

\* update_announcement from its write on, the re-read made on collection reread
update_write(coll, t, r) == update_one(coll, ObjectId(r.announcement_id), update_data(r, t))

update_failed(result) == result.modified_count = 0 /\ result.matched_count = 0

update_reread(coll, r) ==
    Returned(serialize_announcement(find_one(coll, ObjectId(r.announcement_id))))

\* update_announcement run without interruption
update_announcement(coll, t, r) ==
    LET err == update_checks(coll, r)
    IN  IF err # None THEN [ response |-> err[1], coll |-> coll ]
        ELSE LET result == update_write(coll, t, r)
             IN  IF update_failed(result)
                 THEN [ response |-> UpdateFailed, coll |-> result.coll ]
                 ELSE [ response |-> update_reread(result.coll, r), coll |-> result.coll ]

\* mutant: deleted_count is not looked at
delete_announcement_unchecked(coll, r) ==
    IF ~authenticated(r.teacher_username) THEN [ response |-> Unauthorized, coll |-> coll ]
    ELSE IF ~ObjectId_ok(r.announcement_id) THEN [ response |-> InvalidId, coll |-> coll ]
    ELSE LET result == delete_one(coll, ObjectId(r.announcement_id))
         IN  [ response |-> Returned(Some([message |-> "Announcement deleted successfully"])),
               coll |-> result.coll ]

delete_announcement(coll, r) ==
    IF ~authenticated(r.teacher_username) THEN [ response |-> Unauthorized, coll |-> coll ]
    ELSE IF ~ObjectId_ok(r.announcement_id) THEN [ response |-> InvalidId, coll |-> coll ]
    ELSE LET result == delete_one(coll, ObjectId(r.announcement_id))
         IN  IF result.deleted_count = 0
             THEN [ response |-> NotFound, coll |-> result.coll ]
             ELSE [ response |-> Returned(Some([message |-> "Announcement deleted successfully"])),
                    coll |-> result.coll ]

(***************************************************************************)
(* The requests a client may send.                                         *)
(***************************************************************************)
D_2025_10_01 == << "2", "0", "2", "5", "-", "1", "0", "-", "0", "1" >>
D_2025_9_30 == << "2", "0", "2", "5", "-", "9", "-", "3", "0" >>
D_2025_02_30 == << "2", "0", "2", "5", "-", "0", "2", "-", "3", "0" >>

\* the message, expiration_date and start_date of a create or an update
Payload(m, e, s) == [ message |-> m, expiration_date |-> e, start_date |-> s ]

\* accepted: no start date
PlainPayload == Payload(<< "A" >>, D_2025_10_01, None)

\* rejected: a blank message
BlankPayload == Payload(<< " ", " " >>, D_2025_10_01, None)

Payloads ==
    { PlainPayload,
      \* accepted: a message to trim, a date without zero padding, an empty start date
      Payload(<< " ", "B", " " >>, D_2025_9_30, Some(<< >>)),
      \* accepted: a start date
      Payload(<< "B" >>, D_2025_10_01, Some(D_2025_10_01)),
      \* rejected: no such day
      Payload(<< "A" >>, D_2025_02_30, None),
      \* rejected: a start date that is no date
      Payload(<< "A" >>, D_2025_10_01, Some(<< "x" >>)),
      BlankPayload,
      \* rejected: an empty message and a bad date
      Payload(<< >>, D_2025_02_30, Some(D_2025_10_01)) }

\* one teacher of the directory and one stranger
TeacherInputs == { "alice", "eve" }

\* the well-formed identifiers the store may hand out, and a malformed one
IdInputs == { str(n) : n \in 0..(MaxAnn - 1) } \cup { << "x" >> }

ListRequests == { [ op |-> "list", active_only |-> b ] : b \in BOOLEAN }

GetRequests == { [ op |-> "get", announcement_id |-> i ] : i \in IdInputs }

CreateRequests(T, P) ==
    { [ op |-> "create", message |-> p.message, expiration_date |-> p.expiration_date,
        start_date |-> p.start_date, teacher_username |-> u ] :
        p \in P, u \in T }

UpdateRequests(T, P) ==
    { [ op |-> "update", announcement_id |-> i, message |-> p.message,
        expiration_date |-> p.expiration_date, start_date |-> p.start_date,
        teacher_username |-> u ] :
        i \in IdInputs, p \in P, u \in T }

DeleteRequests(T) ==
    { [ op |-> "delete", announcement_id |-> i, teacher_username |-> u ] :
        i \in IdInputs, u \in T }

(***************************************************************************)
(* The state machine: one request at a time.  Each handler runs as one     *)
(* step; call then holds the request, the response and the collection as   *)
(* it was before (with the identifiers deleted before, gone), until the    *)
(* response is returned.  deleted records the identifiers a delete has     *)
(* removed.  upd is an update running step by step (ConcSpec only).        *)
(***************************************************************************)
Idle == [ phase |-> "idle" ]

Init ==
    /\ announcements_collection = {}
    /\ next_oid = 0
    /\ now = 0
    /\ call = Idle
    /\ deleted = {}
    /\ upd = [ pc |-> "idle" ]

Done(r, response) ==
    [ phase |-> "done", request |-> r, response |-> response,
      before |-> announcements_collection, gone |-> deleted ]

List(r) ==
    /\ call.phase = "idle"
    /\ \E body \in get_announcements(announcements_collection, now, r.active_only) :
           call' = Done(r, Returned(body))
    /\ UNCHANGED << announcements_collection, next_oid, now, deleted, upd >>

Get(r) ==
    /\ call.phase = "idle"
    /\ call' = Done(r, get_announcement(announcements_collection, r.announcement_id))
    /\ UNCHANGED << announcements_collection, next_oid, now, deleted, upd >>

\* the store has identifiers left to hand out
CanCreate == next_oid < MaxAnn

Create(r) ==
    /\ call.phase = "idle"
    /\ CanCreate
    /\ LET out == create_announcement(announcements_collection, next_oid, now, r)
       IN  /\ announcements_collection' = out.coll
           /\ next_oid' = IF out.response.status_code = 200 THEN next_oid + 1 ELSE next_oid
           /\ call' = Done(r, out.response)
    /\ UNCHANGED << now, deleted, upd >>

Update(r) ==
    /\ call.phase = "idle"
    /\ LET out == update_announcement(announcements_collection, now, r)
       IN  /\ announcements_collection' = out.coll
           /\ call' = Done(r, out.response)
    /\ UNCHANGED << next_oid, now, deleted, upd >>

Delete(r) ==
    /\ call.phase = "idle"
    /\ LET out == delete_announcement(announcements_collection, r)
       IN  /\ announcements_collection' = out.coll
           /\ deleted' = IF out.response.status_code = 200
                         THEN deleted \cup { ObjectId(r.announcement_id) }
                         ELSE deleted
           /\ call' = Done(r, out.response)
    /\ UNCHANGED << next_oid, now, upd >>

Return ==
    /\ call.phase = "done"
    /\ call' = Idle
    /\ UNCHANGED << announcements_collection, next_oid, now, deleted, upd >>

\* time passes between requests
Tick ==
    /\ call.phase = "idle" /\ upd.pc = "idle"
    /\ now < MaxClock
    /\ now' = now + 1
    /\ UNCHANGED << announcements_collection, next_oid, call, deleted, upd >>

Next ==
    \/ \E r \in ListRequests : List(r)
    \/ \E r \in GetRequests : Get(r)
    \/ \E r \in CreateRequests(TeacherInputs, Payloads) : Create(r)
    \/ \E r \in UpdateRequests(TeacherInputs, Payloads) : Update(r)
    \/ \E r \in DeleteRequests(TeacherInputs) : Delete(r)
    \/ Return
    \/ Tick

Spec == Init /\ [][Next]_vars

(***************************************************************************)
(* The same machine with two teachers of the directory and fewer payloads: *)
(* who created and who updated a record may differ.                        *)
(***************************************************************************)
ProvTeacherInputs == { "alice", "bob", "eve" }

ProvPayloads == { PlainPayload, BlankPayload }

ProvNext ==
    \/ \E r \in ListRequests : List(r)
    \/ \E r \in GetRequests : Get(r)
    \/ \E r \in CreateRequests(ProvTeacherInputs, ProvPayloads) : Create(r)
    \/ \E r \in UpdateRequests(ProvTeacherInputs, ProvPayloads) : Update(r)
    \/ \E r \in DeleteRequests(ProvTeacherInputs) : Delete(r)
    \/ Return
    \/ Tick

ProvSpec == Init /\ [][ProvNext]_vars

(***************************************************************************)
(* Concurrent requests: one update runs store call by store call (its      *)
(* existence check, its write, its re-read) while creates and deletes,     *)
(* each one store call, run in between.                                    *)
(***************************************************************************)
\* lines 139-172: authentication, the existence check, validation
UpdateCheck(r) ==
    /\ upd.pc = "idle"
    /\ LET err == update_checks(announcements_collection, r)
       IN  upd' = IF err # None
                  THEN [ pc |-> "done", request |-> r, response |-> err[1],
                         confirmed |-> FALSE, wrote |-> FALSE, stored |-> None ]
                  ELSE [ pc |-> "checked", request |-> r ]
    /\ UNCHANGED << announcements_collection, next_oid, now, call, deleted >>

\* lines 174-180: the write, and UpdateFailed when nothing matched
UpdateWrite ==
    /\ upd.pc = "checked"
    /\ LET result == update_write(announcements_collection, now, upd.request)
       IN  /\ announcements_collection' = result.coll
           /\ upd' = IF update_failed(result)
                     THEN [ pc |-> "done", request |-> upd.request, response |-> UpdateFailed,
                            confirmed |-> TRUE, wrote |-> FALSE, stored |-> None ]
                     ELSE [ pc |-> "written", request |-> upd.request,
                            stored |-> find_one(result.coll, ObjectId(upd.request.announcement_id)) ]
    /\ UNCHANGED << next_oid, now, call, deleted >>

\* lines 183-184: the re-read and the return
UpdateReread ==
    /\ upd.pc = "written"
    /\ upd' = [ pc |-> "done", request |-> upd.request,
                response |-> update_reread(announcements_collection, upd.request),
                confirmed |-> TRUE, wrote |-> TRUE, stored |-> upd.stored ]
    /\ UNCHANGED << announcements_collection, next_oid, now, call, deleted >>

UpdateReturn ==
    /\ upd.pc = "done"
    /\ upd' = [ pc |-> "idle" ]
    /\ UNCHANGED << announcements_collection, next_oid, now, call, deleted >>

ConcTeacherInputs == { "alice" }

ConcPayloads == { PlainPayload, Payload(<< "B" >>, D_2025_10_01, Some(D_2025_10_01)), BlankPayload }

ConcNext ==
    \/ \E r \in UpdateRequests(ConcTeacherInputs, ConcPayloads) : UpdateCheck(r)
    \/ UpdateWrite
    \/ UpdateReread
    \/ UpdateReturn
    \/ \E r \in CreateRequests(ConcTeacherInputs, ConcPayloads) : Create(r)
    \/ \E r \in DeleteRequests(ConcTeacherInputs) : Delete(r)
    \/ Return
    \/ Tick

ConcSpec == Init /\ [][ConcNext]_vars

(***************************************************************************)
(* The claims.  Handled(ops): a request of one of the operations ops has   *)
(* just been handled; call holds it, its response, and the collection      *)
(* before.                                                                 *)
(***************************************************************************)
Handled(ops) == call.phase = "done" /\ call.request.op \in ops

Succeeded == call.response.status_code = 200

Writes == { "create", "update", "delete" }

\* the record of identifier oid in collection coll, which holds one
Record(coll, oid) == CHOOSE d \in coll : d._id = oid

Ids(coll) == { d._id : d \in coll }

\* C1: a create, update or delete whose teacher_username is not in the
\* Teacher Directory fails with Unauthorized (401), whatever its other
\* arguments, and leaves the Announcement Store as it was.
C1_UnknownTeacherUnauthorized ==
    (Handled(Writes) /\ call.request.teacher_username \notin teachers_collection)
        => /\ call.response = Unauthorized
           /\ announcements_collection = call.before

\* C1's case: an update by a stranger with a malformed id, a bad date and an
\* empty message, on a store that holds a record
C1_Witness ==
    /\ Handled({"update"})
    /\ call.request.teacher_username \notin teachers_collection
    /\ ~ObjectId_ok(call.request.announcement_id)
    /\ ~strptime_ok(call.request.expiration_date)
    /\ call.request.message = << >>
    /\ call.before # {}
    /\ call.response.status_code = 401

\* C4 as stated: every stored message is non-empty and trimmed, and a create
\* or update whose message is empty or whitespace-only fails with
\* EmptyMessage (400) and persists nothing.
C4_AsStated ==
    /\ \A d \in announcements_collection : d.message # << >> /\ d.message = strip(d.message)
    /\ (Handled({"create", "update"}) /\ strip(call.request.message) = << >>)
           => /\ call.response = EmptyMessage
              /\ announcements_collection = call.before

\* the checks a create or an update makes before it looks at the message pass
EarlierChecksPass ==
    /\ call.request.teacher_username \in teachers_collection
    /\ call.request.op = "update" =>
           /\ ObjectId_ok(call.request.announcement_id)
           /\ ObjectId(call.request.announcement_id) \in Ids(call.before)
    /\ strptime_ok(call.request.expiration_date)
    /\ call.request.start_date \in { None, Some(<< >>) }
           \/ strptime_ok(call.request.start_date[1])

\* C4, amended: every stored message is non-empty and trimmed; a create or
\* update whose message is empty or whitespace-only fails and persists
\* nothing, and the failure is EmptyMessage (400) when the earlier checks
\* (teacher, identifier, existence, dates) pass.
C4_BlankMessageRejected ==
    /\ \A d \in announcements_collection : d.message # << >> /\ d.message = strip(d.message)
    /\ (Handled({"create", "update"}) /\ strip(call.request.message) = << >>)
           => /\ ~Succeeded
              /\ announcements_collection = call.before
              /\ EarlierChecksPass => call.response = EmptyMessage

\* C4's case: an update with a whitespace-only message of a stored record is
\* refused, and a record stored from a message with spaces around it
C4_Witness ==
    /\ Handled({"update"})
    /\ call.request.message = << " ", " " >>
    /\ call.response = EmptyMessage
    /\ \E d \in announcements_collection :
           /\ d._id = ObjectId(call.request.announcement_id)
           /\ d.message = << "B" >>
           /\ d.expiration_date = D_2025_9_30

\* the failure the claimed order of update's checks selects, or None
C6_FirstFailure ==
    LET r == call.request
    IN  IF r.teacher_username \notin teachers_collection THEN Some(Unauthorized)
        ELSE IF ~ObjectId_ok(r.announcement_id) THEN Some(InvalidId)
        ELSE IF ObjectId(r.announcement_id) \notin Ids(call.before) THEN Some(NotFound)
        ELSE IF \/ ~strptime_ok(r.expiration_date)
                \/ (r.start_date \notin { None, Some(<< >>) } /\ ~strptime_ok(r.start_date[1]))
             THEN Some(InvalidDate)
        ELSE IF strip(r.message) = << >> THEN Some(EmptyMessage)
        ELSE None

\* C6: update reports the first failure in the order Unauthorized, InvalidId,
\* NotFound, InvalidDate, EmptyMessage, and whenever it fails with one of
\* them the store is unchanged.
C6_UpdateFailureOrder ==
    Handled({"update"}) =>
        LET first == C6_FirstFailure
        IN  /\ first # None => call.response = first[1]
            /\ first = None => Succeeded
            /\ call.response \in { Unauthorized, InvalidId, NotFound, InvalidDate, EmptyMessage }
                   => announcements_collection = call.before

\* C6's case: NotFound, InvalidDate and EmptyMessage all hold (a teacher of
\* the directory, a well-formed id that is not stored while another record
\* is): NotFound is reported
C6_Witness ==
    /\ Handled({"update"})
    /\ call.request.teacher_username \in teachers_collection
    /\ ObjectId_ok(call.request.announcement_id)
    /\ ObjectId(call.request.announcement_id) \notin Ids(call.before)
    /\ call.before # {}
    /\ ~strptime_ok(call.request.expiration_date)
    /\ call.request.message = << >>
    /\ call.response = NotFound

\* the date a stored date string stands for is on or before / on or after D
OnOrBefore(s, D) == strptime_ok(s) /\ DateLeq(strptime(s), D)

OnOrAfter(s, D) == strptime_ok(s) /\ DateLeq(D, strptime(s))

\* the announcement is active at date D, its dates read as calendar dates
\* (an empty start_date, which C3 is about, is read as no start date, so
\* that only the comparison of dates decides)
CalendarActive(d, D) ==
    /\ OnOrAfter(d.expiration_date, D)
    /\ \/ "start_date" \notin DOMAIN d
       \/ d.start_date \in { None, Some(<< >>) }
       \/ OnOrBefore(d.start_date[1], D)

\* C2 as stated: list(active_only=true) at date D returns exactly the stored
\* announcements with expiration_date >= D and start_date absent, null or
\* <= D as calendar dates, list(active_only=false) returns every stored
\* announcement, both ordered by created_at descending.
C2_ListIsCalendarActive ==
    Handled({"list"}) =>
        LET body == call.response.body
            D == datetime_now(now)
            expected == { serialize_announcement(Some(d))[1] :
                            d \in { a \in announcements_collection :
                                      call.request.active_only => CalendarActive(a, D) } }
        IN  /\ { body[i] : i \in 1..Len(body) } = expected
            /\ Len(body) = Cardinality(expected)
            /\ \A i, j \in 1..Len(body) :
                   i < j => StrLeq(body[j].created_at, body[i].created_at)

\* the string is a valid calendar date written YYYY-MM-DD
IsYMD(s) == strptime_ok(s) /\ s = strftime(strptime(s))

\* C3 as stated: every stored expiration_date is a valid calendar date in
\* YYYY-MM-DD form and every stored start_date is absent, null or one (an
\* empty string is never stored).
C3_StoredDatesAreYMD ==
    \A d \in announcements_collection :
        /\ IsYMD(d.expiration_date)
        /\ \/ "start_date" \notin DOMAIN d
           \/ d.start_date = None
           \/ IsYMD(d.start_date[1])

CreatedFields == { "id", "message", "start_date", "expiration_date", "created_by", "created_at" }

\* C8: a get on the id a successful create returned, with no write in
\* between, returns the record create returned: the id as a string, the
\* trimmed message, start_date as given (null when not given),
\* expiration_date, created_by, created_at, and no other field.
C8_GetAfterCreate ==
    (Handled({"create"}) /\ Succeeded) =>
        LET created == call.response.body[1]
            r == call.request
        IN  /\ DOMAIN created = CreatedFields
            /\ ObjectId_ok(created.id)
            /\ created.message = strip(r.message)
            /\ created.start_date = r.start_date
            /\ created.expiration_date = r.expiration_date
            /\ created.created_by = r.teacher_username
            /\ created.created_at = isoformat(datetime_now(now))
            /\ get_announcement(announcements_collection, created.id) = Returned(Some(created))

\* C8's case: a create without start_date, of a message to trim, succeeded
\* beside an older record
C8_Witness ==
    /\ Handled({"create"}) /\ Succeeded
    /\ call.before # {}
    /\ call.response.body[1].start_date = None
    /\ \E d \in announcements_collection :
           /\ str(d._id) = call.response.body[1].id
           /\ d \notin call.before
    /\ \E d \in call.before : d.message = << "B" >> /\ d.start_date = Some(<< >>)

\* C9: after a successful update of a created record, get on its id returns
\* the update's trimmed message, expiration_date and start_date; an update
\* without start_date leaves start_date null.
C9_GetAfterUpdate ==
    (Handled({"update"}) /\ Succeeded) =>
        LET r == call.request
            got == get_announcement(announcements_collection, r.announcement_id)
        IN  /\ got.status_code = 200
            /\ got = call.response
            /\ got.body[1].message = strip(r.message)
            /\ got.body[1].expiration_date = r.expiration_date
            /\ got.body[1].start_date = r.start_date

\* C9's case: an update without start_date and with another message, of a
\* record that had a start_date
C9_Witness ==
    /\ Handled({"update"}) /\ Succeeded
    /\ call.request.start_date = None
    /\ LET old == Record(call.before, ObjectId(call.request.announcement_id))
       IN  /\ old.start_date = Some(D_2025_10_01)
           /\ old.message # strip(call.request.message)

\* the request names, by a well-formed id, a record deleted before it
OnDeletedId ==
    /\ Handled({"get", "update", "delete"})
    /\ ObjectId_ok(call.request.announcement_id)
    /\ ObjectId(call.request.announcement_id) \in call.gone

\* list never returns a deleted record, no stored record has a deleted id,
\* and a delete by a teacher of the directory of a well-formed id that is
\* not stored yields NotFound and changes nothing
C10_Rest ==
    /\ Handled({"list"}) =>
           \A i \in 1..Len(call.response.body) :
               ObjectId(call.response.body[i].id) \notin deleted
    /\ \A d \in announcements_collection : d._id \notin deleted
    /\ ( /\ Handled({"delete"})
         /\ call.request.teacher_username \in teachers_collection
         /\ ObjectId_ok(call.request.announcement_id)
         /\ ObjectId(call.request.announcement_id) \notin Ids(call.before) )
           => /\ call.response = NotFound
              /\ announcements_collection = call.before

\* C10 as stated: after a successful delete of an id, every later get, update
\* or delete on that id yields NotFound (404), whatever ran in between; list
\* never returns it; the id is never reassigned; a delete by an authenticated
\* teacher of a well-formed id not in the store yields NotFound and changes
\* nothing.
C10_AsStated ==
    /\ OnDeletedId => call.response = NotFound
    /\ C10_Rest

\* C10, amended: after a successful delete of an id, every later get on that
\* id, and every later update or delete on it by a teacher of the Teacher
\* Directory, yields NotFound (404), whatever ran in between; list never
\* returns it; the id is never reassigned; a delete by an authenticated
\* teacher of a well-formed id not in the store yields NotFound and changes
\* nothing.
C10_DeletedStaysNotFound ==
    /\ ( /\ OnDeletedId
         /\ \/ call.request.op = "get"
            \/ call.request.teacher_username \in teachers_collection )
           => call.response = NotFound
    /\ C10_Rest

\* C10's case: an update by a teacher of the directory, with a valid payload,
\* of an id deleted before a later create
C10_Witness ==
    /\ OnDeletedId
    /\ call.request.op = "update"
    /\ call.request.teacher_username \in teachers_collection
    /\ strptime_ok(call.request.expiration_date)
    /\ \E d \in announcements_collection : d._id > ObjectId(call.request.announcement_id)
    /\ call.response = NotFound

\* the update just handled succeeded on the record of identifier oid
UpdatedNow(oid) ==
    /\ call'.phase = "done" /\ call'.request.op = "update"
    /\ call'.response.status_code = 200
    /\ ObjectId(call'.request.announcement_id) = oid

\* C7, one step: a record's created_by and created_at never change; a new
\* record has created_by of its create and neither updated_by nor
\* updated_at; a record changes only by a successful update, after which its
\* updated_by is that update's teacher_username and its updated_at the time.
C7_Step ==
    /\ \A d \in announcements_collection, e \in announcements_collection' :
           d._id = e._id =>
               /\ e.created_by = d.created_by
               /\ e.created_at = d.created_at
               /\ e # d => UpdatedNow(e._id)
    /\ \A e \in announcements_collection' :
           e._id \notin Ids(announcements_collection) =>
               /\ call'.phase = "done" /\ call'.request.op = "create"
               /\ e.created_by = call'.request.teacher_username
               /\ e.created_at = isoformat(datetime_now(now))
               /\ "updated_by" \notin DOMAIN e
               /\ "updated_at" \notin DOMAIN e
    /\ \A e \in announcements_collection' :
           UpdatedNow(e._id) =>
               /\ e.updated_by = call'.request.teacher_username
               /\ e.updated_at = isoformat(datetime_now(now))

\* C7: created_by and created_at keep the values create set; updated_by and
\* updated_at are absent until the first successful update; after each
\* successful update updated_by is that update's teacher_username.
C7_Provenance == [][C7_Step]_vars

\* C7's case: a record created by one teacher and just updated, later, by
\* another, beside a record never updated
C7_Witness ==
    /\ Handled({"update"}) /\ Succeeded
    /\ \E d \in announcements_collection :
           /\ d._id = ObjectId(call.request.announcement_id)
           /\ d.created_by = "alice"
           /\ d.updated_by = "bob"
           /\ d.updated_at # d.created_at
    /\ \E d \in announcements_collection : "updated_by" \notin DOMAIN d

\* C5 as stated: with a delete running between update's store calls, every
\* update either succeeds, returning the record as stored after its write, or
\* fails having persisted nothing; UpdateFailed (500) does not occur for an
\* id its existence check confirmed; a write is never followed by a response
\* that is not an Announcement.
C5_UpdateAllOrNothing ==
    upd.pc = "done" =>
        /\ \/ /\ upd.response.status_code = 200
              /\ upd.response.body # None
              /\ upd.response.body = serialize_announcement(upd.stored)
           \/ /\ upd.response.status_code # 200
              /\ ~upd.wrote
        /\ upd.response = UpdateFailed => ~upd.confirmed
        /\ upd.wrote => (upd.response.status_code = 200 /\ upd.response.body # None)

====
